---- MODULE Spec2Model ----
(***************************************************************************)
(* Crank-Nicolson integration of the 1D heat equation, as performed by the *)
(* code cell of HeatEquation1D.ipynb.                                      *)
(*                                                                         *)
(* Numbers are exact rationals <<num, den>> in lowest terms with den > 0,  *)
(* so every equality below is an equality of the values the algorithm      *)
(* computes, free of rounding.  Arrays are 0-based functions, as in numpy. *)
(***************************************************************************)
EXTENDS Integers, FiniteSets, Sequences, TLC

(* ------------------------------------------------------------------ *)
(* Model bounds and input sets                                        *)
(* ------------------------------------------------------------------ *)
MaxNx == 5
MaxNt == 3

\* values an initial interior entry may take
FieldValues == {-1, 0, 1}
\* values a boundary entry may take
BCValues == {0, 1}
\* coupling coefficients the diffusion coefficient is chosen to produce; the
\* finest one only on grids of at most three interior points, which keeps the
\* exact numerators and denominators within TLC's 32-bit integers
LambdaValues(nx_) ==
    IF nx_ - 2 <= 3 THEN {<<1, 2>>, <<1, 1>>, <<2, 1>>} ELSE {<<1, 1>>, <<2, 1>>}

(* ------------------------------------------------------------------ *)
(* Exact rational arithmetic                                          *)
(* ------------------------------------------------------------------ *)
Abs(n) == IF n < 0 THEN -n ELSE n

RECURSIVE GCD(_, _)
GCD(a, b) == IF b = 0 THEN a ELSE GCD(b, a % b)

Norm(n, d) ==
    LET s == IF d < 0 THEN -1 ELSE 1
        g == GCD(Abs(n), Abs(d))
    IN  IF n = 0 THEN <<0, 1>> ELSE <<(s * n) \div g, (s * d) \div g>>

Zero == <<0, 1>>
FromInt(n) == <<n, 1>>

RNeg(x) == <<-x[1], x[2]>>

RAdd(x, y) ==
    LET g == GCD(x[2], y[2])
        m == (x[2] \div g) * y[2]
    IN  Norm(x[1] * (y[2] \div g) + y[1] * (x[2] \div g), m)

RSub(x, y) == RAdd(x, RNeg(y))

RMul(x, y) ==
    LET g1 == GCD(Abs(x[1]), y[2])
        g2 == GCD(Abs(y[1]), x[2])
    IN  IF x[1] = 0 \/ y[1] = 0 THEN Zero
        ELSE <<(x[1] \div g1) * (y[1] \div g2), (x[2] \div g2) * (y[2] \div g1)>>

\* x / y; the callers guard against y = 0 (Python raises ZeroDivisionError)
RDiv(x, y) ==
    IF y[1] = 0 THEN Zero
    ELSE RMul(x, IF y[1] < 0 THEN <<-y[2], -y[1]>> ELSE <<y[2], y[1]>>)

RAbs(x) == <<Abs(x[1]), x[2]>>
RLeq(x, y) == RSub(y, x)[1] >= 0
RLess(x, y) == RSub(y, x)[1] > 0

(* ------------------------------------------------------------------ *)
(* Arrays                                                             *)
(* ------------------------------------------------------------------ *)
Size(v) == Cardinality(DOMAIN v)

\* [x]*m : Python list repetition; empty when m <= 0
ListRepeat(x, m) == [i \in 0..(m - 1) |-> x]

\* v[1:-1]
Interior(row) == [j \in 0..(Size(row) - 3) |-> row[j + 1]]

RECURSIVE SumUpTo(_, _)
SumUpTo(v, k) == IF k < 0 THEN Zero ELSE RAdd(SumUpTo(v, k - 1), v[k])
VecSum(v) == SumUpTo(v, Size(v) - 1)

\* faulty variant: the band wraps around into the opposite corner
np_diag_Wrapped(v, k) ==
    LET n == Size(v) + Abs(k)
    IN  [i \in 0..(n - 1) |-> [j \in 0..(n - 1) |->
            IF Size(v) > 0 /\ (j - i - k) % n = 0 THEN v[0] ELSE Zero]]

\* np.diag(v, k): square matrix of order len(v)+|k| with v on diagonal k
np_diag(v, k) ==
    LET n == Size(v) + Abs(k)
    IN  [i \in 0..(n - 1) |-> [j \in 0..(n - 1) |->
            IF j - i = k THEN v[IF k >= 0 THEN i ELSE j] ELSE Zero]]

\* X + Y for square arrays, with numpy's broadcasting of an order-1 operand
MatAdd(X, Y) ==
    LET p == Size(X)
        q == Size(Y)
        n == IF p = q THEN p ELSE IF p = 1 THEN q ELSE p
    IN  [i \in 0..(n - 1) |-> [j \in 0..(n - 1) |->
            RAdd(X[IF p = 1 THEN 0 ELSE i][IF p = 1 THEN 0 ELSE j],
                 Y[IF q = 1 THEN 0 ELSE i][IF q = 1 THEN 0 ELSE j])]]

\* M.dot(v)
MatVec(M, v) ==
    [i \in DOMAIN M |-> VecSum([j \in DOMAIN M |-> RMul(M[i][j], v[j])])]

(* ------------------------------------------------------------------ *)
(* np.linalg.solve: LU elimination with partial pivoting, then back    *)
(* substitution (LAPACK gesv); LinAlgError when a pivot is zero        *)
(* ------------------------------------------------------------------ *)
\* the matrix with the right-hand side as extra column n
Augment(M, rhs) ==
    LET n == Size(M)
    IN  [i \in 0..(n - 1) |-> [j \in 0..n |-> IF j < n THEN M[i][j] ELSE rhs[i]]]

\* first row at or below k whose entry in column k is largest in magnitude
PivotRow(M, k, n) ==
    CHOOSE r \in k..(n - 1) :
        \A s \in k..(n - 1) :
            /\ RLeq(RAbs(M[s][k]), RAbs(M[r][k]))
            /\ s < r => RLess(RAbs(M[s][k]), RAbs(M[r][k]))

SwapRows(M, k, p) ==
    [i \in DOMAIN M |-> IF i = k THEN M[p] ELSE IF i = p THEN M[k] ELSE M[i]]

\* faulty variant: the right-hand side column is left out of the elimination
ClearColumn_SkipRhs(M, k) ==
    [i \in DOMAIN M |->
        IF i <= k THEN M[i]
        ELSE LET f == RDiv(M[i][k], M[k][k])
             IN  [j \in DOMAIN M[i] |->
                    IF j = Size(M) THEN M[i][j] ELSE RSub(M[i][j], RMul(f, M[k][j]))]]

\* subtract from every row below k the multiple of row k that clears column k
ClearColumn(M, k) ==
    [i \in DOMAIN M |->
        IF i <= k THEN M[i]
        ELSE LET f == RDiv(M[i][k], M[k][k])
             IN  [j \in DOMAIN M[i] |-> RSub(M[i][j], RMul(f, M[k][j]))]]

RECURSIVE Eliminate(_, _, _)
Eliminate(M, k, n) ==
    IF k >= n THEN [ok |-> TRUE, m |-> M]
    ELSE LET p == PivotRow(M, k, n)
         IN  IF M[p][k] = Zero THEN [ok |-> FALSE, m |-> M]
             ELSE Eliminate(ClearColumn(SwapRows(M, k, p), k), k + 1, n)

\* x[i..n-1] of the upper-triangular system, given x[i+1..n-1]
RECURSIVE BackSubstitute(_, _, _, _)
BackSubstitute(M, n, i, x) ==
    IF i < 0 THEN x
    ELSE LET s  == VecSum([j \in 0..(n - 1) |->
                        IF j > i THEN RMul(M[i][j], x[j]) ELSE Zero])
             xi == RDiv(RSub(M[i][n], s), M[i][i])
         IN  BackSubstitute(M, n, i - 1,
                 [j \in 0..(n - 1) |-> IF j = i THEN xi ELSE x[j]])

linalg_solve(M, rhs) ==
    LET n == Size(M)
        e == Eliminate(Augment(M, rhs), 0, n)
    IN  IF e.ok
        THEN [ok |-> TRUE, x |-> BackSubstitute(e.m, n, n - 1, [j \in 0..(n - 1) |-> Zero])]
        ELSE [ok |-> FALSE, x |-> rhs]

(* ------------------------------------------------------------------ *)
(* Grid, buffer and coefficient matrices                              *)
(* ------------------------------------------------------------------ *)
SpaceEnd == 1
TimeEnd == 10

\* np.linspace(start, stop, num) for integer end points
np_linspace(start, stop, num) ==
    [i \in 0..(num - 1) |->
        IF num = 1 THEN FromInt(start)
        ELSE RAdd(FromInt(start), RMul(FromInt(i), RDiv(FromInt(stop - start), FromInt(num - 1))))]

\* faulty variant: only the space division is taken to raise
RaisesZeroDivision_SpaceOnly(nx_, nt_) == nx_ - 1 = 0

\* 1/(nx-1) or 1/(nt-1) raises ZeroDivisionError
RaisesZeroDivision(nx_, nt_) == nx_ - 1 = 0 \/ nt_ - 1 = 0

StepSize(num) == RDiv(FromInt(1), FromInt(num - 1))

\* (D*dt)/(dx**2)
Coupling(D_, dt_, dx_) == RDiv(RMul(D_, dt_), RMul(dx_, dx_))

\* np.zeros((rows, cols))
np_zeros(rows, cols) == [t \in 0..(rows - 1) |-> [j \in 0..(cols - 1) |-> Zero]]

\* w[:, j] = val
SetColumn(w, j, val) ==
    [t \in DOMAIN w |-> [c \in DOMAIN w[t] |-> IF c = j THEN val ELSE w[t][c]]]

\* faulty variant: the slice starts at column 0, w[t, 0:-2] = x
SetInterior_FromZero(w, t, x) ==
    [r \in DOMAIN w |-> [c \in DOMAIN w[r] |->
        IF r = t /\ c >= 0 /\ c <= Size(w[r]) - 3 THEN x[c] ELSE w[r][c]]]

\* w[t, 1:-1] = x
SetInterior(w, t, x) ==
    [r \in DOMAIN w |-> [c \in DOMAIN w[r] |->
        IF r = t /\ c >= 1 /\ c <= Size(w[r]) - 2 THEN x[c - 1] ELSE w[r][c]]]

\* u after lines 132-139
InitialBuffer(nt_, nx_, bc, x0) ==
    SetInterior(SetColumn(SetColumn(np_zeros(nt_, nx_), 0, bc[0]), nx_ - 1, bc[1]), 0, x0)

Two == FromInt(2)
One == FromInt(1)

\* np.diag([2*(1+lbd)]*(nx-2),k=0) + np.diag([-lbd]*(nx-3),k=1) + np.diag([-lbd]*(nx-3),k=-1)
ImplicitMatrix(lam, nx_) ==
    MatAdd(MatAdd(np_diag(ListRepeat(RMul(Two, RAdd(One, lam)), nx_ - 2), 0),
                  np_diag(ListRepeat(RNeg(lam), nx_ - 3), 1)),
           np_diag(ListRepeat(RNeg(lam), nx_ - 3), -1))

\* faulty variant: the diagonal of B carries the sign of the diagonal of A
ExplicitMatrix_PlusDiagonal(lam, nx_) ==
    MatAdd(MatAdd(np_diag(ListRepeat(RMul(Two, RAdd(One, lam)), nx_ - 2), 0),
                  np_diag(ListRepeat(lam, nx_ - 3), 1)),
           np_diag(ListRepeat(lam, nx_ - 3), -1))

\* faulty variant: the lower band of B is missing
ExplicitMatrix_UpperOnly(lam, nx_) ==
    MatAdd(np_diag(ListRepeat(RMul(Two, RSub(One, lam)), nx_ - 2), 0),
           np_diag(ListRepeat(lam, nx_ - 3), 1))

\* np.diag([2*(1-lbd)]*(nx-2),k=0) + np.diag([lbd]*(nx-3),k=1) + np.diag([lbd]*(nx-3),k=-1)
ExplicitMatrix(lam, nx_) ==
    MatAdd(MatAdd(np_diag(ListRepeat(RMul(Two, RSub(One, lam)), nx_ - 2), 0),
                  np_diag(ListRepeat(lam, nx_ - 3), 1)),
           np_diag(ListRepeat(lam, nx_ - 3), -1))

(* ------------------------------------------------------------------ *)
(* State                                                              *)
(* ------------------------------------------------------------------ *)
VARIABLES
    nx, nt,        \* number of space points and of time levels
    D,             \* diffusion coefficient
    BCs,           \* the two boundary values
    u0,            \* initial interior field
    J, L,          \* space and time axes
    dx, dt, lbd,   \* step sizes and coupling coefficient
    u,             \* field buffer, u[time][space]
    A, B,          \* implicit and explicit coefficient matrices
    l,             \* index of the next loop iteration
    b, sol,        \* right-hand side and solution of the latest iteration
    frame,         \* number of frames the animation has drawn
    line,          \* data of the frame drawn last
    pc,            \* position of the run
    err            \* exception that ended the run, or "none"

vars == <<nx, nt, D, BCs, u0, J, L, dx, dt, lbd, u, A, B, l, b, sol, frame, line, pc, err>>

inputs == <<nx, nt, D, BCs, u0>>

\* diffusion coefficients for which a grid of nx_ by nt_ points has a
\* coupling coefficient in LambdaValues
DValues(nx_, nt_) ==
    IF nx_ = 1 \/ nt_ = 1 THEN {One}
    ELSE {RDiv(RMul(lam, FromInt(nt_ - 1)), FromInt((nx_ - 1) * (nx_ - 1))) : lam \in LambdaValues(nx_)}

\* The parameters the cell hard-codes (nx, nt, D, BCs) and the initial
\* profile u0 range over small sets; u0 stands for any profile over the
\* interior points J[1:-1], of which the notebook's sine arc is one.
Init ==
    /\ nx \in 1..MaxNx
    /\ nt \in 1..MaxNt
    /\ D \in DValues(nx, nt)
    /\ BCs \in [0..1 -> {FromInt(v) : v \in BCValues}]
    /\ u0 \in [0..(nx - 3) -> {FromInt(v) : v \in FieldValues}]
    /\ J = <<>> /\ L = <<>>
    /\ dx = Zero /\ dt = Zero /\ lbd = Zero
    /\ u = <<>>
    /\ A = <<>> /\ B = <<>>
    /\ l = 0
    /\ b = <<>> /\ sol = <<>>
    /\ frame = 0
    /\ line = <<>>
    /\ pc = "Uninitialized"
    /\ err = "none"

\* lines 120-130
GridSetup ==
    /\ pc = "Uninitialized"
    /\ J' = np_linspace(0, SpaceEnd, nx)
    /\ L' = np_linspace(0, TimeEnd, nt)
    /\ IF RaisesZeroDivision(nx, nt)
       THEN /\ pc' = "Error"
            /\ err' = "ZeroDivisionError"
            /\ UNCHANGED <<dx, dt, lbd>>
       ELSE /\ dx' = StepSize(nx)
            /\ dt' = StepSize(nt)
            /\ lbd' = Coupling(D, dt', dx')
            /\ pc' = "GridReady"
            /\ err' = err
    /\ UNCHANGED <<inputs, u, A, B, l, b, sol, frame, line>>

\* lines 132-139
BufferInit ==
    /\ pc = "GridReady"
    /\ u' = InitialBuffer(nt, nx, BCs, u0)
    /\ pc' = "Initialized"
    /\ UNCHANGED <<inputs, J, L, dx, dt, lbd, A, B, l, b, sol, frame, line, err>>

\* lines 142-143, and entry into the loop
BuildMatrices ==
    /\ pc = "Initialized"
    /\ A' = ImplicitMatrix(lbd, nx)
    /\ B' = ExplicitMatrix(lbd, nx)
    /\ l' = 0
    /\ pc' = "Running"
    /\ UNCHANGED <<inputs, J, L, dx, dt, lbd, u, b, sol, frame, line, err>>

\* faulty variant: the iteration overwrites the snapshot it reads
TargetRow_InPlace(k) == k

\* index of the snapshot the iteration with index k writes: u[l+1, ...]
TargetRow(k) == k + 1

\* faulty variant: the loop stops one iteration early
LoopCount_Short(nt_) == nt_ - 2

\* number of iterations of "for l in range(nt-1)"
LoopCount(nt_) == nt_ - 1

\* one iteration of the loop, lines 147-150
Step ==
    /\ pc = "Running"
    /\ l < LoopCount(nt)
    /\ LET rhs == MatVec(B, Interior(u[l]))
           s   == linalg_solve(A, rhs)
       IN  /\ b' = rhs
           /\ IF s.ok
              THEN /\ sol' = s.x
                   /\ u' = SetInterior(u, TargetRow(l), s.x)
                   /\ l' = l + 1
                   /\ UNCHANGED <<pc, err>>
              ELSE /\ pc' = "Failed"
                   /\ err' = "LinAlgError"
                   /\ UNCHANGED <<sol, u, l>>
    /\ UNCHANGED <<inputs, J, L, dx, dt, lbd, A, B, frame, line>>

\* range(nt-1) is exhausted
LoopExit ==
    /\ pc = "Running"
    /\ l >= LoopCount(nt)
    /\ pc' = "Completed"
    /\ UNCHANGED <<inputs, J, L, dx, dt, lbd, u, A, B, l, b, sol, frame, line, err>>

\* ani(i) for the frames 0 .. nt-1 of the saved animation, lines 160-173
ani ==
    /\ pc = "Completed"
    /\ frame < nt
    /\ line' = u[frame]
    /\ frame' = frame + 1
    /\ UNCHANGED <<inputs, J, L, dx, dt, lbd, u, A, B, l, b, sol, pc, err>>

Next ==
    \/ GridSetup
    \/ BufferInit
    \/ BuildMatrices
    \/ Step
    \/ LoopExit
    \/ ani

Spec == Init /\ [][Next]_vars

\* the statements that compute: everything up to the end of the loop body
Compute == GridSetup \/ BufferInit \/ BuildMatrices \/ Step

\* ENABLED <<Compute>>_vars, written out as a state predicate
CanCompute ==
    \/ pc \in {"Uninitialized", "GridReady", "Initialized"}
    \/ pc = "Running" /\ l < LoopCount(nt)

\* The cell runs to its end without suspension: every statement is weakly
\* fair.  For the computing statements WF_vars(Compute) is stated by its
\* definition, with the enabling condition written out as CanCompute.
FairSpec ==
    /\ Spec
    /\ WF_vars(LoopExit)
    /\ WF_vars(ani)
    /\ ([]<>(~CanCompute) \/ []<><<Compute>>_vars)

(* ------------------------------------------------------------------ *)
(* Properties                                                         *)
(* ------------------------------------------------------------------ *)
BufferExists == pc \in {"Initialized", "Running", "Completed", "Failed"}
MatricesExist == pc \in {"Running", "Completed", "Failed"}
ZeroBoundaries == BCs[0] = Zero /\ BCs[1] = Zero
InteriorSum(t) == VecSum(Interior(u[t]))
ScenarioField == [i \in 0..2 |-> FromInt(1 - i)]

\* C1: every snapshot l+1 written by the loop holds, in its interior, a
\* solution x of A x = B v, where v is the interior of snapshot l; in the
\* scenario with three interior points, lambda = 2, zero boundaries and the
\* initial interior [1,0,-1] the first step solves A x = B [1,0,-1].
C1_StepSolvesSystem ==
    MatricesExist =>
        /\ \A k \in 0..(l - 1) :
               MatVec(A, Interior(u[k + 1])) = MatVec(B, Interior(u[k]))
        /\ (l >= 1 /\ nx = 5 /\ u0 = ScenarioField) =>
               MatVec(A, Interior(u[1])) = MatVec(B, ScenarioField)

C1_Witness ==
    /\ pc = "Running" /\ l >= 1
    /\ nx = 5 /\ lbd = <<2, 1>> /\ ZeroBoundaries /\ u0 = ScenarioField
    /\ sol = [i \in 0..2 |-> IF i = 0 THEN <<-1, 3>> ELSE IF i = 1 THEN Zero ELSE <<1, 3>>]
    /\ Interior(u[1]) = sol

\* C2: once the buffer is initialised, the first entry of every snapshot is
\* BCs[0] and the last entry is BCs[1], whatever number of steps has run.
C2_BoundariesFixed ==
    BufferExists =>
        \A t \in 0..(nt - 1) : u[t][0] = BCs[0] /\ u[t][nx - 1] = BCs[1]

C2_Witness ==
    /\ pc = "Completed" /\ l >= 2 /\ nx >= 4
    /\ BCs[0] = One /\ BCs[1] = Zero
    /\ \E j \in DOMAIN sol : sol[j] # Zero
    /\ u[l][0] = One

\* C3: the buffer is append-only in time order: an entry of the initialised
\* buffer changes only in the step with index l, only in snapshot l+1 and
\* only in an interior column; the loop index only ever grows by one, so
\* snapshots 0..l are never rewritten and each later one is written once.
C3_AppendOnly ==
    [][ /\ BufferExists =>
            \A t \in 0..(nt - 1) : \A j \in 0..(nx - 1) :
                u'[t][j] # u[t][j] =>
                    /\ pc = "Running" /\ l' = l + 1
                    /\ t = l + 1
                    /\ j >= 1 /\ j <= nx - 2
        /\ l' # l => (l' = l + 1 /\ l + 1 <= nt - 1)
      ]_vars

C3_Witness ==
    /\ pc = "Running" /\ l = 2
    /\ Interior(u[0]) = u0
    /\ u[1] # u[0] /\ u[2] # u[1]
    /\ \E j \in DOMAIN u0 : u0[j] # Zero

\* C4: the coefficient matrices are plain tridiagonal of order nx-2:
\* A has 2(1+lbd) on the diagonal and -lbd next to it, B has 2(1-lbd) on the
\* diagonal and +lbd next to it, every other entry (corners included) is 0;
\* for lbd = 2 the values are 6 / -2 and -2 / 2.
Tridiagonal(M, n, diag, off) ==
    /\ DOMAIN M = 0..(n - 1)
    /\ \A i \in 0..(n - 1) :
           /\ DOMAIN M[i] = 0..(n - 1)
           /\ \A j \in 0..(n - 1) :
                  M[i][j] = IF i = j THEN diag
                            ELSE IF Abs(i - j) = 1 THEN off ELSE Zero

UnknownSide(t, j) ==
    RAdd(RAdd(RMul(RNeg(lbd), u[t][j + 1]),
              RMul(RMul(Two, RAdd(One, lbd)), u[t][j])),
         RMul(RNeg(lbd), u[t][j - 1]))

KnownSide(t, j) ==
    RAdd(RAdd(RMul(lbd, u[t][j + 1]),
              RMul(RMul(Two, RSub(One, lbd)), u[t][j])),
         RMul(lbd, u[t][j - 1]))

C5_CrankNicolsonRelation ==
    MatricesExist =>
        \A k \in 0..(l - 1) : \A j \in 1..(nx - 2) :
            UnknownSide(k + 1, j) = KnownSide(k, j)

\* C6 (as stated): with zero boundary values, for every lbd > 0 and every
\* initial field, the interior sum of snapshot l+1 is at most that of l.
C6_SumNonIncreasing ==
    (MatricesExist /\ ZeroBoundaries /\ RLess(Zero, lbd)) =>
        \A k \in 0..(l - 1) : RLeq(InteriorSum(k + 1), InteriorSum(k))

\* C6 (amended): with zero boundary values, 0 < lbd <= 1 and an initial
\* interior field without negative entries, the interior sum of snapshot
\* l+1 is at most that of snapshot l.
NonNegativeField == \A j \in DOMAIN u0 : RLeq(Zero, u0[j])

C6_SumNonIncreasingNonNegative ==
    (MatricesExist /\ ZeroBoundaries /\ RLess(Zero, lbd) /\ RLeq(lbd, One)
        /\ NonNegativeField) =>
        \A k \in 0..(l - 1) : RLeq(InteriorSum(k + 1), InteriorSum(k))

C6_Witness ==
    /\ pc = "Running" /\ l = 2 /\ nx >= 4
    /\ ZeroBoundaries /\ RLeq(lbd, One) /\ NonNegativeField
    /\ RLess(InteriorSum(1), InteriorSum(0))
    /\ RLess(InteriorSum(2), InteriorSum(1))

\* C7: with zero boundary values and a left-right symmetric initial field,
\* every snapshot of the buffer is left-right symmetric.
SymmetricInitial == \A j \in DOMAIN u0 : u0[j] = u0[nx - 3 - j]

C7_SymmetryPreserved ==
    (BufferExists /\ ZeroBoundaries /\ SymmetricInitial) =>
        \A t \in 0..(nt - 1) : \A j \in 0..(nx - 1) : u[t][j] = u[t][nx - 1 - j]

C7_Witness ==
    /\ pc = "Completed" /\ l = 2 /\ nx = 5
    /\ ZeroBoundaries /\ SymmetricInitial
    /\ u0[0] # u0[1]
    /\ u[2][1] # u[2][2] /\ u[2][1] = u[2][3]

\* C8 (as stated): on an invalid grid (fewer than one interior point or
\* fewer than one time step) the run ends in an error raised at grid
\* construction, with no matrix built, no buffer written and no step taken.
InvalidGrid == nx - 2 < 1 \/ nt - 1 < 1
NothingBuilt == u = <<>> /\ A = <<>> /\ B = <<>> /\ l = 0 /\ frame = 0

C8_InvalidGridRejected ==
    (InvalidGrid /\ pc # "Uninitialized") => (pc = "Error" /\ NothingBuilt)

\* C8 (amended): when nx = 1 or nt = 1 the run ends in a ZeroDivisionError
\* raised while the step sizes are computed, with no matrix built, no
\* buffer written and no step taken; a grid with nx = 2 (no interior point)
\* and nt >= 2 raises no error.
C8_ZeroDivisionOnDegenerateGrid ==
    pc # "Uninitialized" =>
        /\ (nx = 1 \/ nt = 1) =>
               pc = "Error" /\ err = "ZeroDivisionError" /\ NothingBuilt
        /\ (nx >= 2 /\ nt >= 2) => (pc # "Error" /\ err = "none")

C8_Witness ==
    /\ pc = "Error" /\ err = "ZeroDivisionError"
    /\ nt = 1 /\ nx >= 3
    /\ Size(J) = nx

\* C9: the run moves Uninitialized -> Initialized -> Running -> Completed;
\* the loop index takes the values 0, 1, ..., nt-2 in increasing order, so
\* exactly nt-1 steps are performed; a run that is Initialized eventually is
\* Completed; once Completed or Failed, no step is taken and the buffer no
\* longer changes; the animation draws frames only when Completed.
Transitions ==
    { <<"Uninitialized", "GridReady">>, <<"Uninitialized", "Error">>,
      <<"GridReady", "Initialized">>, <<"Initialized", "Running">>,
      <<"Running", "Completed">>, <<"Running", "Failed">> }

C9_StateMachine ==
    /\ [][pc' # pc => (<<pc, pc'>> \in Transitions)]_vars
    /\ [][l' # l => (pc = "Running" /\ l' = l + 1 /\ l <= nt - 2)]_vars
    /\ [](pc = "Completed" => l = nt - 1)
    /\ [][(pc = "Completed" \/ pc = "Failed") => (pc' = pc /\ u' = u /\ l' = l)]_vars
    /\ [](frame > 0 => pc = "Completed")
    /\ [][frame' # frame => (pc = "Completed" /\ line' = u[frame])]_vars
    /\ (pc = "Initialized" ~> pc = "Completed")

C9_Witness ==
    /\ pc = "Completed" /\ nt = 3 /\ l = 2 /\ nx >= 3
    /\ frame = nt /\ line = u[nt - 1]

\* C10: the step sizes agree with the axes: dx is the spacing of J, dt is
\* the spacing of L, and lbd = D*dt/dx^2, for every nx >= 3 and nt >= 2.
C10_StepSizesAgree ==
    (pc \notin {"Uninitialized", "Error"} /\ nx >= 3 /\ nt >= 2) =>
        /\ dx = RSub(J[1], J[0])
        /\ dt = RSub(L[1], L[0])
        /\ lbd = RDiv(RMul(D, dt), RMul(dx, dx))

====
